---- MODULE Spec2Model ----
(***************************************************************************)
(* Model of ama.py (Audio Metadata Auditer): the directory walker, the     *)
(* tag decoder adapter, the album grouper, the album diagnostics engine,   *)
(* the health scorer and the structure of the rendered report.             *)
(*                                                                         *)
(* Python dicts are TLA+ records whose DOMAIN is the dict's key set, so    *)
(* `"error" in fi` is  "error" \in DOMAIN fi.  Text on which the program   *)
(* works character by character (paths, file names, album tags) is a      *)
(* sequence of one-character strings; opaque text (hashes, artist names,   *)
(* ID3 versions, container names) is an atomic string.  None is NoneStr    *)
(* for atomic strings and NoneInt for numbers.                             *)
(***************************************************************************)
EXTENDS Integers, Sequences, FiniteSets, TLC

VARIABLES
    \* ---- health scorer (get_output, first pass and score) ----
    h_pc, total_albums, warn_albums, crit_albums, health_percent, bar_percent, bar_filled,
    \* ---- album diagnostics engine (build_album_messages) ----
    a_pc, album_files, set_first, a_level, a_messages, a_warn_msgs, a_crit_msgs, a_info_msgs,
    a_seconds, a_size,
    \* ---- album grouper (group_by_album) ----
    g_pc, file_infos, albums_by_key, key_order,
    \* ---- scan (get_output over a directory tree) ----
    s_pc, tree, max_depth, stack, results, total_candidates, processed_candidates,
    debug_lines, computed_per_album, output, prev_output, scans,
    \* ---- command line run (main) ----
    m_pc, args, root_is_dir, output_file, clipboard, terminal_out, exit_code

vars == << h_pc, total_albums, warn_albums, crit_albums, health_percent, bar_percent, bar_filled,
           a_pc, album_files, set_first, a_level, a_messages, a_warn_msgs, a_crit_msgs, a_info_msgs,
           a_seconds, a_size,
           g_pc, file_infos, albums_by_key, key_order,
           s_pc, tree, max_depth, stack, results, total_candidates, processed_candidates,
           debug_lines, computed_per_album, output, prev_output, scans,
           m_pc, args, root_is_dir, output_file, clipboard, terminal_out, exit_code >>

s_vars == << s_pc, tree, max_depth, stack, results, total_candidates, processed_candidates,
             debug_lines, computed_per_album, output, prev_output, scans >>
h_vars == << h_pc, total_albums, warn_albums, crit_albums, health_percent, bar_percent, bar_filled >>
a_vars == << a_pc, album_files, set_first, a_level, a_messages, a_warn_msgs, a_crit_msgs, a_info_msgs,
            a_seconds, a_size >>
g_vars == << g_pc, file_infos, albums_by_key, key_order >>
m_vars == << m_pc, args, root_is_dir, output_file, clipboard, terminal_out, exit_code >>

NoneStr == "None"
NoneInt == -1

\* the parts of the state a specification does not use stay at these values
AIdle ==
    /\ a_pc = "idle" /\ album_files = << >> /\ a_level = NoneStr /\ a_messages = << >>
    /\ a_warn_msgs = << >> /\ a_crit_msgs = << >> /\ a_info_msgs = << >>
    /\ a_seconds = 0 /\ a_size = 0 /\ set_first = << >>

GIdle ==
    /\ g_pc = "idle" /\ file_infos = << >> /\ albums_by_key = << >> /\ key_order = << >>

SIdle ==
    /\ s_pc = "idle" /\ tree = {} /\ max_depth = 0 /\ stack = << >> /\ results = << >>
    /\ total_candidates = 0 /\ processed_candidates = 0 /\ computed_per_album = << >>
    /\ debug_lines = << >> /\ output = << >> /\ prev_output = << >> /\ scans = 0

MIdle ==
    /\ m_pc = "idle" /\ args = << >> /\ root_is_dir = TRUE
    /\ output_file = [exists |-> FALSE, text |-> << >>]
    /\ clipboard = [copied |-> FALSE, text |-> << >>]
    /\ terminal_out = << >> /\ exit_code = NoneInt

HIdle ==
    /\ h_pc = "idle" /\ total_albums = 0 /\ warn_albums = 0 /\ crit_albums = 0
    /\ health_percent = NoneInt /\ bar_percent = NoneInt /\ bar_filled = NoneInt

(***************************************************************************)
(* Bounds of the model.                                                    *)
(***************************************************************************)
MaxAlbums == 24       \* albums counted by the health scorer
MaxRichFiles == 3     \* records of an album whose tag fields vary
MaxPlainFiles == 8    \* records of an album of which only the content varies
MaxGroupFiles == 3    \* records handed to the album grouper
MaxTreeFiles == 2     \* files of a scanned tree whose content varies
MaxWalkFiles == 3     \* files of a scanned tree whose place and name vary
TreeDepth == 2        \* depth of the deepest directory of a scanned tree
MaxDepthBound == 1    \* largest --max-depth of a scan of a deep tree
MaxScans == 2         \* scans of the same unchanged tree
MaxLibrary == 120     \* albums of a large library handed to the health scorer
EdgeAlbums == 2       \* albums by which a large library differs from a clean or an all-Crit one

(***************************************************************************)
(* Generic helpers.                                                        *)
(***************************************************************************)
Get(d, k, default) == IF k \in DOMAIN d THEN d[k] ELSE default

Min(a, b) == IF a < b THEN a ELSE b
Max(a, b) == IF a > b THEN a ELSE b

(***************************************************************************)
(* Text: sequences of one-character strings.  CharOrder lists the          *)
(* characters the model uses in their code-point order.                    *)
(***************************************************************************)
CharOrder == << " ", ".", "/", "0", "1", "2", "3", "4", "5", "6", "7", "8", "9",
                "A", "B", "C", "D", "E", "F", "G", "H", "I", "J", "K", "L", "M",
                "N", "O", "P", "Q", "R", "S", "T", "U", "V", "W", "X", "Y", "Z", "_",
                "a", "b", "c", "d", "e", "f", "g", "h", "i", "j", "k", "l", "m",
                "n", "o", "p", "q", "r", "s", "t", "u", "v", "w", "x", "y", "z" >>

\* ord(c), tabulated once
OrdOf == [c \in { CharOrder[i] : i \in DOMAIN CharOrder } |->
             CHOOSE i \in DOMAIN CharOrder : CharOrder[i] = c]
Ord(c) == OrdOf[c]

\* str.lower() on one character: "A".."Z" are 27 places before "a".."z"
LowerOf == [c \in { CharOrder[i] : i \in DOMAIN CharOrder } |->
               IF OrdOf[c] >= OrdOf["A"] /\ OrdOf[c] <= OrdOf["Z"]
               THEN CharOrder[OrdOf[c] + 27] ELSE c]
LowerChar(c) == LowerOf[c]

Lower(s) == [i \in DOMAIN s |-> LowerChar(s[i])]

\* Python's < on str: lexicographic by code point, a proper prefix is smaller
RECURSIVE StrLess(_, _)
StrLess(s, t) ==
    IF t = << >> THEN FALSE
    ELSE IF s = << >> THEN TRUE
    ELSE IF s[1] # t[1] THEN Ord(s[1]) < Ord(t[1])
    ELSE StrLess(Tail(s), Tail(t))

RECURSIVE LastIndexOf(_, _)
LastIndexOf(s, c) ==
    IF s = << >> THEN 0
    ELSE IF s[Len(s)] = c THEN Len(s)
    ELSE LastIndexOf(SubSeq(s, 1, Len(s) - 1), c)

\* Path(p).name: the text after the last "/"
PathName(p) == SubSeq(p, LastIndexOf(p, "/") + 1, Len(p))

\* Path(name).suffix: from the last "." of the name, unless that dot is the
\* first or the last character of the name
Suffix(p) ==
    LET name == PathName(p)
        i    == LastIndexOf(name, ".")
    IN  IF i > 1 /\ i < Len(name) THEN SubSeq(name, i, Len(name)) ELSE << >>

\* str(Path(p).parent)
PathParent(p) ==
    LET i == LastIndexOf(p, "/")
    IN  IF i = 0 THEN << "." >>
        ELSE IF i = 1 THEN << "/" >>
        ELSE SubSeq(p, 1, i - 1)

\* " ".join(s.split()): whitespace runs collapse to one space, none at the ends
RECURSIVE JoinSplit(_, _)
JoinSplit(s, pendingSpace) ==
    IF s = << >> THEN << >>
    ELSE IF s[1] = " " THEN JoinSplit(Tail(s), TRUE)
    ELSE (IF pendingSpace THEN << " " >> ELSE << >>) \o << s[1] >> \o JoinSplit(Tail(s), FALSE)

RECURSIVE LStrip(_)
LStrip(s) == IF s # << >> /\ s[1] = " " THEN LStrip(Tail(s)) ELSE s

\* canonicalize_string: " ".join(str(value).strip().lower().split())
canonicalize_string(value) == JoinSplit(LStrip(Lower(value)), FALSE)

\* str(n) for n >= 0
Digit(d) == CharOrder[Ord("0") + d]
RECURSIVE IntToStr(_)
IntToStr(n) == IF n < 10 THEN << Digit(n) >> ELSE IntToStr(n \div 10) \o << Digit(n % 10) >>

(***************************************************************************)
(* Sequence helpers.                                                       *)
(***************************************************************************)
Range(seq) == { seq[i] : i \in DOMAIN seq }

\* the distinct elements of seq in first-seen order (dict / Counter key order)
RECURSIVE DistinctFrom(_, _)
DistinctFrom(seq, seen) ==
    IF seq = << >> THEN seen
    ELSE DistinctFrom(Tail(seq), IF seq[1] \in Range(seen) THEN seen ELSE Append(seen, seq[1]))

Distinct(seq) == DistinctFrom(seq, << >>)

RECURSIVE SumSeq(_)
SumSeq(seq) == IF seq = << >> THEN 0 ELSE seq[1] + SumSeq(Tail(seq))

\* sorted(set) for text and for numbers
RECURSIVE SortStrs(_)
SortStrs(set) ==
    IF set = {} THEN << >>
    ELSE LET m == CHOOSE x \in set : \A y \in set : y = x \/ StrLess(x, y)
         IN  << m >> \o SortStrs(set \ {m})

RECURSIVE SortInts(_)
SortInts(set) ==
    IF set = {} THEN << >>
    ELSE LET m == CHOOSE x \in set : \A y \in set : x <= y
         IN  << m >> \o SortInts(set \ {m})

MapSeq(seq, F(_)) == [i \in DOMAIN seq |-> F(seq[i])]

(***************************************************************************)
(* Health scorer.                                                          *)
(*   health_percent = int(round(100 * (1 - (penalty_units / max_units))))  *)
(* The operands are Python floats (IEEE doubles) and round() rounds half   *)
(* to even.  The exact value is 100*(max-pen)/max = num/max_units.  The    *)
(* double computation is off by less than 1e-13, which only matters at an  *)
(* exact tie (fraction 1/2).  A tie means pen/max = j/200 with j odd, and  *)
(* the double result depends on the ratio alone: it is the even neighbour  *)
(* unless the three roundings (division, subtraction, multiplication)      *)
(* leave the double off the tie on the other side, which they do for the   *)
(* ratios of OddSideTies.                                                  *)
(***************************************************************************)
\* the j of the ties j/200 at which the double lands next to the odd neighbour
OddSideTies ==
    {85, 89, 93, 109, 115, 137, 139, 143, 157, 161, 163, 167, 171, 181, 185, 191, 195, 199}

\* a scorer that rounds every fraction up
RoundOutcomesCeiling(penalty_units, max_units) ==
    { (100 * (max_units - penalty_units) + max_units - 1) \div max_units }

\* a scorer that truncates instead of rounding
RoundOutcomesTruncating(penalty_units, max_units) ==
    { (100 * (max_units - penalty_units)) \div max_units }

RoundOutcomes(penalty_units, max_units) ==
    LET num   == 100 * (max_units - penalty_units)
        fl    == num \div max_units
        rem2  == 2 * (num % max_units)
        even  == IF fl % 2 = 0 THEN fl ELSE fl + 1
        odd   == IF fl % 2 = 0 THEN fl + 1 ELSE fl
    IN  IF rem2 < max_units THEN {fl}
        ELSE IF rem2 > max_units THEN {fl + 1}
        ELSE IF (200 * penalty_units) \div max_units \in OddSideTies THEN {odd}
        ELSE {even}

\* a scorer that normalises by the album count instead of twice the album count
HealthOutcomesUnnormalised(total, warn, crit) ==
    IF total > 0 THEN RoundOutcomes(warn + 2 * crit, total) ELSE {100}

HealthOutcomes(total, warn, crit) ==
    IF total > 0 THEN RoundOutcomes(warn + 2 * crit, 2 * total) ELSE {100}

\* _render_health_bar: clamp, then int(width * health_percent / 100)
BarWidth == 40
ClampPercent(h) == Max(0, Min(100, h))
BarFilled(h) == (BarWidth * ClampPercent(h)) \div 100

HInit ==
    /\ h_pc = "counting"
    /\ total_albums = 0
    /\ warn_albums = 0
    /\ crit_albums = 0
    /\ health_percent = NoneInt
    /\ bar_percent = NoneInt
    /\ bar_filled = NoneInt

Levels == {"CRIT", "WARN", "INFO", NoneStr}

\* one iteration of the first pass over the albums (level of the album given)
CountAlbum(level) ==
    /\ h_pc = "counting"
    /\ total_albums < MaxAlbums
    /\ total_albums' = total_albums + 1
    /\ crit_albums' = IF level = "CRIT" THEN crit_albums + 1 ELSE crit_albums
    /\ warn_albums' = IF level = "WARN" THEN warn_albums + 1 ELSE warn_albums
    /\ UNCHANGED << h_pc, health_percent, bar_percent, bar_filled >>

ComputeHealth ==
    /\ h_pc = "counting"
    /\ \E h \in HealthOutcomes(total_albums, warn_albums, crit_albums) :
          /\ health_percent' = h
          /\ bar_percent' = ClampPercent(h)
          /\ bar_filled' = BarFilled(h)
    /\ h_pc' = "scored"
    /\ UNCHANGED << total_albums, warn_albums, crit_albums >>


(***************************************************************************)
(* Album diagnostics engine: build_album_messages.                         *)
(*                                                                         *)
(* A message is a record: kind names the sentence, names / nums / count    *)
(* carry the values the sentence interpolates.                             *)
(*                                                                         *)
(* artwork_hashes is a Python set of str.  Its iteration order depends on  *)
(* the per-process string hash seed and on the order of insertion, so the  *)
(* field is the sequence of insertions and set_first maps each sequence    *)
(* of two or more hashes to the element next(iter(hs)) yields in this      *)
(* process.                                                                *)
(***************************************************************************)
Msg(kind, names, nums, count) == [kind |-> kind, names |-> names, nums |-> nums, count |-> count]

Truthy(strval) == strval # NoneStr /\ strval # ""

\* next(iter(hs), None) for hs = fi.get("artwork_hashes") or set()
FirstHash(fi, setFirst) ==
    LET hs == Get(fi, "artwork_hashes", << >>)
    IN  IF Len(hs) = 0 THEN NoneStr
        ELSE IF Len(hs) = 1 THEN hs[1]
        ELSE setFirst[hs]

\* 1) Multiple file formats present (INFO)
InfoMsgs(files) ==
    LET extensions_in_album == SortStrs({ Lower(Suffix(files[i].file_name)) : i \in DOMAIN files })
    IN  IF Len(extensions_in_album) > 1
        THEN << Msg("multiple_formats", extensions_in_album, << >>, 0) >>
        ELSE << >>

\* 2) Duplicate audio content by hash (WARN)
HashOf(fi) == Get(fi, "content_hash", NoneStr)

\* keys of files_by_hash in insertion order
HashKeys(files) == Distinct(MapSeq(SelectSeq(files, LAMBDA fi : Truthy(HashOf(fi))), HashOf))

HashGroup(files, h) == SelectSeq(files, LAMBDA fi : HashOf(fi) = h)

AllGroups(files) == LET keys == HashKeys(files) IN [i \in DOMAIN keys |-> HashGroup(files, keys[i])]

DuplicateGroups(files) == SelectSeq(AllGroups(files), LAMBDA g : Len(g) > 1)

MaxShown == 3

\* a summary that counts only the duplicate groups left over
DupMsgsCountingDuplicatesOnly(files) ==
    LET duplicate_groups == DuplicateGroups(files)
        shown            == Min(MaxShown, Len(duplicate_groups))
        remaining_groups == Len(duplicate_groups) - shown
    IN  IF duplicate_groups = << >> THEN << >>
        ELSE [i \in 1..shown |->
                 Msg("duplicate", << duplicate_groups[i][1].file_name >>, << >>,
                     Len(duplicate_groups[i]) - 1)]
             \o (IF remaining_groups > 0
                 THEN << Msg("more_duplicate_groups", << >>, << >>, remaining_groups) >>
                 ELSE << >>)

DupMsgs(files) ==
    LET all_groups       == AllGroups(files)
        duplicate_groups == DuplicateGroups(files)
        shown            == Min(MaxShown, Len(duplicate_groups))
        remaining_groups == Len(all_groups) - shown
    IN  IF duplicate_groups = << >> THEN << >>
        ELSE [i \in 1..shown |->
                 Msg("duplicate", << duplicate_groups[i][1].file_name >>, << >>,
                     Len(duplicate_groups[i]) - 1)]
             \o (IF remaining_groups > 0
                 THEN << Msg("more_duplicate_groups", << >>, << >>, remaining_groups) >>
                 ELSE << >>)

\* 3) Album name consistency (WARN)
AlbumNameMsgs(files) ==
    LET album_variants == { Get(files[i], "album", << >>) : i \in DOMAIN files } \ { << >> }
    IN  IF Cardinality(album_variants) > 1
        THEN << Msg("album_name_differs", << >>, << >>, 0) >> ELSE << >>

\* 4) Artist consistency (WARN)
ArtistMsgs(files) ==
    LET artist_variants == { a \in { Get(files[i], "artist", "") : i \in DOMAIN files } : Truthy(a) }
    IN  IF Cardinality(artist_variants) > 1
        THEN << Msg("artist_differs", << >>, << >>, 0) >> ELSE << >>

\* 5) Artwork presence and uniformity (WARN)
TrackLabel(fi) ==
    IF Get(fi, "track_number", NoneInt) # NoneInt
    THEN IntToStr(fi.track_number)
    ELSE Get(fi, "file_name", << >>)

ArtworkMsgs(files, setFirst) ==
    LET art_hashes_per_track == [i \in DOMAIN files |-> FirstHash(files[i], setFirst)]
        tracks_without_art   == MapSeq(SelectSeq(files, LAMBDA fi : FirstHash(fi, setFirst) = NoneStr),
                                       TrackLabel)
        art_present_hashes   == Range(art_hashes_per_track) \ { NoneStr }
    IN  (IF Len(tracks_without_art) > 0 /\ Len(tracks_without_art) < Len(files)
         THEN << Msg("missing_cover", tracks_without_art, << >>, 0) >> ELSE << >>)
        \o
        (IF Cardinality(art_present_hashes) > 1
         THEN << Msg("artwork_differs", << >>, << >>, 0) >> ELSE << >>)

\* 6) Sample rate and channel count consistency (WARN)
TechMsgs(files) ==
    LET sample_rates == { r \in { Get(files[i], "sample_rate", NoneInt) : i \in DOMAIN files } :
                              r # NoneInt /\ r # 0 }
        channels     == { Get(files[i], "channels", NoneInt) : i \in DOMAIN files } \ { NoneInt }
    IN  (IF Cardinality(sample_rates) > 1
         THEN << Msg("sample_rates_differ", << >>, SortInts(sample_rates), 0) >> ELSE << >>)
        \o
        (IF Cardinality(channels) > 1
         THEN << Msg("channels_differ", << >>, SortInts(channels), 0) >> ELSE << >>)

\* 7) ID3 validation (WARN)
StandardId3 == { << "2", ".", "3", ".", "0" >>, << "2", ".", "4", ".", "0" >> }

Id3Msgs(files) ==
    LET id3_versions     == { Get(files[i], "id3_version", << >>) : i \in DOMAIN files } \ { << >> }
        invalid_versions == id3_versions \ StandardId3
    IN  (IF Cardinality(id3_versions) > 1
         THEN << Msg("id3_versions_differ", SortStrs(id3_versions), << >>, 0) >> ELSE << >>)
        \o
        (IF invalid_versions # {}
         THEN << Msg("id3_nonstandard", SortStrs(invalid_versions), << >>, 0) >> ELSE << >>)

WarnMsgs(files, setFirst) ==
    DupMsgs(files) \o AlbumNameMsgs(files) \o ArtistMsgs(files) \o ArtworkMsgs(files, setFirst)
    \o TechMsgs(files) \o Id3Msgs(files)

\* 8) Critical unreadable MP3s (CRIT)
IsCritFile(fi) ==
    /\ Get(fi, "container", NoneStr) = "mp3"
    /\ \/ Get(fi, "error", NoneStr) = "mp3_unreadable"
       \/ Get(fi, "length_s", NoneInt) = NoneInt

CritMsgs(files) ==
    LET crit_count == Len(SelectSeq(files, IsCritFile))
    IN  IF crit_count > 0
        THEN << Msg("mp3_unreadable", << >>, << >>, crit_count) >> ELSE << >>

LengthOrZero(fi) == LET l == Get(fi, "length_s", NoneInt) IN IF l = NoneInt THEN 0 ELSE l
SizeOrZero(fi) == Get(fi, "size_bytes", 0)

\* a selection that forgets to prune INFO from a CRIT album
SelectLevelKeepingInfo(info_msgs, warn_msgs, crit_msgs) ==
    IF crit_msgs # << >> THEN [level |-> "CRIT", messages |-> info_msgs \o warn_msgs \o crit_msgs]
    ELSE IF warn_msgs # << >> THEN [level |-> "WARN", messages |-> warn_msgs]
    ELSE IF info_msgs # << >> THEN [level |-> "INFO", messages |-> info_msgs]
    ELSE [level |-> NoneStr, messages |-> << >>]

\* Select level + prune INFO if WARN/CRIT exists
SelectLevel(info_msgs, warn_msgs, crit_msgs) ==
    IF crit_msgs # << >> THEN [level |-> "CRIT", messages |-> warn_msgs \o crit_msgs]
    ELSE IF warn_msgs # << >> THEN [level |-> "WARN", messages |-> warn_msgs]
    ELSE IF info_msgs # << >> THEN [level |-> "INFO", messages |-> info_msgs]
    ELSE [level |-> NoneStr, messages |-> << >>]

\* the returned tuple (level, messages, total_seconds, total_size_bytes) and
\* the three local message lists it was selected from
build_album_messages(files, setFirst) ==
    LET info_msgs == InfoMsgs(files)
        warn_msgs == WarnMsgs(files, setFirst)
        crit_msgs == CritMsgs(files)
        sel       == SelectLevel(info_msgs, warn_msgs, crit_msgs)
    IN  [level |-> sel.level, messages |-> sel.messages,
         total_seconds |-> SumSeq(MapSeq(files, LengthOrZero)),
         total_size_bytes |-> SumSeq(MapSeq(files, SizeOrZero)),
         info_msgs |-> info_msgs, warn_msgs |-> warn_msgs, crit_msgs |-> crit_msgs]

(***************************************************************************)
(* Inputs of build_album_messages: uniform dicts as to_uniform_dict makes  *)
(* them.  BaseTrack is a well-tagged MP3; every other record of the        *)
(* universe differs from it in the fields one rule looks at.               *)
(***************************************************************************)
Txt_a_mp3  == << "a", ".", "m", "p", "3" >>
Txt_b_flac == << "b", ".", "f", "l", "a", "c" >>
Txt_C_MP3  == << "C", ".", "M", "P", "3" >>
Txt_e_mp3  == << "e", ".", "m", "p", "3" >>
Id3_230    == << "2", ".", "3", ".", "0" >>
Id3_240    == << "2", ".", "4", ".", "0" >>
Id3_220    == << "2", ".", "2", ".", "0" >>

UniqueHashes == << "u1", "u2", "u3", "u4", "u5", "u6", "u7", "u8", "u9", "u10" >>

BaseTrack ==
    [ file_name |-> Txt_a_mp3, container |-> "mp3", length_s |-> 3, sample_rate |-> 44100,
      channels |-> 2, album |-> << "X" >>, artist |-> "P", track_number |-> 1,
      id3_version |-> Id3_230, artwork_hashes |-> << "p1" >>, content_hash |-> "u1",
      size_bytes |-> 5 ]

ErrorTrack ==
    [ file_name |-> Txt_e_mp3, error |-> "mp3_unreadable", content_hash |-> "u1", size_bytes |-> 7 ]

TrackVariants ==
    { BaseTrack,
      [BaseTrack EXCEPT !.file_name = Txt_b_flac, !.container = "flac", !.id3_version = << >>],
      [BaseTrack EXCEPT !.file_name = Txt_C_MP3],
      [BaseTrack EXCEPT !.length_s = NoneInt],
      [BaseTrack EXCEPT !.album = << "Y" >>],
      [BaseTrack EXCEPT !.album = << >>],
      [BaseTrack EXCEPT !.artist = "Q"],
      [BaseTrack EXCEPT !.artwork_hashes = << >>, !.track_number = NoneInt],
      [BaseTrack EXCEPT !.artwork_hashes = << >>, !.track_number = 12],
      [BaseTrack EXCEPT !.artwork_hashes = << "p2" >>],
      [BaseTrack EXCEPT !.artwork_hashes = << "p1", "p2" >>],
      [BaseTrack EXCEPT !.artwork_hashes = << "p2", "p1" >>],
      [BaseTrack EXCEPT !.sample_rate = 48000, !.channels = 1],
      [BaseTrack EXCEPT !.id3_version = Id3_220],
      [BaseTrack EXCEPT !.id3_version = Id3_240],
      ErrorTrack }

\* the content hash of the k-th record: its own; for a well-tagged record
\* also the first record's (a byte-identical copy) or None (unreadable file)
RichHashes(variant, k) ==
    IF variant = BaseTrack THEN { UniqueHashes[k], UniqueHashes[1], NoneStr } ELSE { UniqueHashes[k] }

PlainName(k) == << "t" >> \o IntToStr(k) \o << ".", "m", "p", "3" >>

\* hashes in first-use order; a new record repeats one of them or takes the
\* next unused one
PlainHashes(files) ==
    LET used == Range(HashKeys(files))
        next == Cardinality(used) + 1
    IN  used \cup { UniqueHashes[next] }

\* the iteration orders this process can give the multi-hash artwork sets of files
MultiArt(files) == { hs \in { Get(files[i], "artwork_hashes", << >>) : i \in DOMAIN files } : Len(hs) > 1 }
SetFirstChoices(files) == { f \in [MultiArt(files) -> {"p1", "p2"}] : \A hs \in MultiArt(files) : f[hs] \in Range(hs) }

AInit ==
    /\ a_pc = "empty" /\ album_files = << >> /\ a_level = NoneStr /\ a_messages = << >>
    /\ a_warn_msgs = << >> /\ a_crit_msgs = << >> /\ a_info_msgs = << >>
    /\ a_seconds = 0 /\ a_size = 0 /\ set_first = << >>

AddFile(variant, h) ==
    /\ a_pc \in {"empty", "rich"}
    /\ Len(album_files) < MaxRichFiles
    /\ Len(album_files) < Len(UniqueHashes)
    /\ h \in RichHashes(variant, Len(album_files) + 1)
    /\ album_files' = Append(album_files, [variant EXCEPT !.content_hash = h])
    /\ a_pc' = "rich"
    /\ UNCHANGED << set_first, a_level, a_messages, a_warn_msgs, a_crit_msgs, a_info_msgs,
                    a_seconds, a_size >>

AddPlainFile(h) ==
    /\ a_pc \in {"empty", "plain"}
    /\ Len(album_files) < MaxPlainFiles
    /\ Len(album_files) < Len(UniqueHashes)
    /\ h \in PlainHashes(album_files)
    /\ album_files' = Append(album_files,
                             [BaseTrack EXCEPT !.file_name = PlainName(Len(album_files) + 1),
                                               !.content_hash = h])
    /\ a_pc' = "plain"
    /\ UNCHANGED << set_first, a_level, a_messages, a_warn_msgs, a_crit_msgs, a_info_msgs,
                    a_seconds, a_size >>

BuildAlbumMessages ==
    /\ a_pc \in {"rich", "plain"}
    /\ \E sf \in SetFirstChoices(album_files) :
          LET r == build_album_messages(album_files, sf)
          IN  /\ set_first' = sf
              /\ a_level' = r.level
              /\ a_messages' = r.messages
              /\ a_info_msgs' = r.info_msgs
              /\ a_warn_msgs' = r.warn_msgs
              /\ a_crit_msgs' = r.crit_msgs
              /\ a_seconds' = r.total_seconds
              /\ a_size' = r.total_size_bytes
    /\ a_pc' = "built"
    /\ UNCHANGED album_files

AlbumInit == AInit /\ HIdle /\ GIdle /\ SIdle /\ MIdle

AlbumNext ==
    \/ \E v \in TrackVariants, h \in Range(UniqueHashes) \cup {NoneStr} :
          AddFile(v, h) /\ UNCHANGED << h_vars, g_vars, s_vars, m_vars >>
    \/ \E h \in Range(UniqueHashes) : AddPlainFile(h) /\ UNCHANGED << h_vars, g_vars, s_vars, m_vars >>
    \/ BuildAlbumMessages /\ UNCHANGED << h_vars, g_vars, s_vars, m_vars >>

SpecAlbum == AlbumInit /\ [][AlbumNext]_vars

(***************************************************************************)
(* Album grouper: group_by_album.  The result is a dict: keys in insertion *)
(* order and the list of records of each key.                              *)
(***************************************************************************)
ErrorsKey     == << "_", "_", "e", "r", "r", "o", "r", "s", "_", "_" >>
UnknownKey    == << "u", "n", "k", "n", "o", "w", "n" >>
UnknownDirKey == << "u", "n", "k", "n", "o", "w", "n", "_", "d", "i", "r" >>

\* any("path" in fi and fi.get("path") for fi in file_infos)
HasAnyPath(infos) == \E i \in DOMAIN infos : Get(infos[i], "path", << >>) # << >>

OrElse(text, fallback) == IF text = << >> THEN fallback ELSE text

\* a grouper that always takes the tag-based fallback
GroupKeyByTagOnly(fi, has_any_path) ==
    IF "error" \in DOMAIN fi THEN ErrorsKey
    ELSE OrElse(canonicalize_string(Get(fi, "album", << >>)), UnknownKey)

\* the key one record is appended under
GroupKey(fi, has_any_path) ==
    IF "error" \in DOMAIN fi THEN ErrorsKey
    ELSE IF has_any_path
         THEN OrElse(canonicalize_string(PathParent(Get(fi, "path", << >>))), UnknownDirKey)
         ELSE OrElse(canonicalize_string(Get(fi, "album", << >>)), UnknownKey)

group_by_album(infos) ==
    LET has_any_path == HasAnyPath(infos)
        keyOf        == [i \in DOMAIN infos |-> GroupKey(infos[i], has_any_path)]
        keys         == Distinct(keyOf)
        IndexesOf(k) == SelectSeq([i \in DOMAIN infos |-> i], LAMBDA i : keyOf[i] = k)
    IN  [keys   |-> keys,
         groups |-> [k \in Range(keys) |-> MapSeq(IndexesOf(k), LAMBDA i : infos[i])]]

Txt_mA_a   == << "/", "m", "/", "A", "/", "a", ".", "m", "p", "3" >>
Txt_ma_b   == << "/", "m", "/", "a", "/", "b", ".", "m", "p", "3" >>
Txt_mbc_a  == << "/", "m", "/", "b", " ", " ", "C", "/", "a", ".", "m", "p", "3" >>
Txt_bare   == << "a", ".", "m", "p", "3" >>

GroupPaths  == { << >>, Txt_mA_a, Txt_ma_b, Txt_mbc_a, Txt_bare }
GroupAlbums == { << >>, << "X" >>, << " ", "x", " " >>, << "X", " ", " ", "y" >>, << " " >>,
                 << "_", "_", "E", "R", "R", "O", "R", "S", "_", "_" >> }
GroupErrors == { "mp3_unreadable", "unreadable" }

\* the (path, album) pairs of the records handed to the grouper: every album
\* tag without a path, and every path with and without an album tag
GroupInputs ==
    { pa \in GroupPaths \X GroupAlbums : pa[1] = << >> \/ pa[2] \in { << >>, << "X" >> } }
GroupErrorPaths == { << >>, Txt_mA_a }

\* a dict carrying just the keys the grouper reads, path and album only when set
GroupRecord(name, path, album) ==
    LET base     == [file_name |-> name]
        withPath == IF path = << >> THEN base
                    ELSE [k \in DOMAIN base \cup {"path"} |-> IF k = "path" THEN path ELSE base[k]]
    IN  IF album = << >> THEN withPath
        ELSE [k \in DOMAIN withPath \cup {"album"} |-> IF k = "album" THEN album ELSE withPath[k]]

GroupErrorRecord(name, path, error) ==
    LET base == [file_name |-> name, error |-> error]
    IN  IF path = << >> THEN base
        ELSE [k \in DOMAIN base \cup {"path"} |-> IF k = "path" THEN path ELSE base[k]]

GInit == g_pc = "collect" /\ file_infos = << >> /\ albums_by_key = << >> /\ key_order = << >>

AddFileInfo(path, album) ==
    /\ g_pc = "collect"
    /\ Len(file_infos) < MaxGroupFiles
    /\ << path, album >> \in GroupInputs
    /\ file_infos' = Append(file_infos, GroupRecord(PlainName(Len(file_infos) + 1), path, album))
    /\ UNCHANGED << g_pc, albums_by_key, key_order >>

AddErrorInfo(path, error) ==
    /\ g_pc = "collect"
    /\ Len(file_infos) < MaxGroupFiles
    /\ file_infos' = Append(file_infos, GroupErrorRecord(PlainName(Len(file_infos) + 1), path, error))
    /\ UNCHANGED << g_pc, albums_by_key, key_order >>

GroupByAlbum ==
    /\ g_pc = "collect"
    /\ \E r \in { group_by_album(file_infos) } :
          /\ albums_by_key' = r.groups
          /\ key_order' = r.keys
    /\ g_pc' = "grouped"
    /\ UNCHANGED file_infos

GroupInit == GInit /\ HIdle /\ AIdle /\ SIdle /\ MIdle

GroupNext ==
    \/ \E path \in GroupPaths, album \in GroupAlbums :
          AddFileInfo(path, album) /\ UNCHANGED << h_vars, a_vars, s_vars, m_vars >>
    \/ \E path \in GroupErrorPaths, error \in GroupErrors :
          AddErrorInfo(path, error) /\ UNCHANGED << h_vars, a_vars, s_vars, m_vars >>
    \/ GroupByAlbum /\ UNCHANGED << h_vars, a_vars, s_vars, m_vars >>

SpecGroup == GroupInit /\ [][GroupNext]_vars

(***************************************************************************)
(* Tag decoder adapter: to_uniform_dict.                                   *)
(*                                                                         *)
(* A file's content is what the filesystem and the external decoder        *)
(* (mutagen) answer for it: its size, its SHA-1, and the outcome of        *)
(* decoding.  decode = "ok" comes with the stream and tag fields;          *)
(* "mp3_unreadable" / "unreadable" are exceptions raised by load_audio;    *)
(* "unrecognized" is File() returning None; "raise_mp3" / "raise_other"    *)
(* are exceptions that leave to_uniform_dict (raised outside its try       *)
(* block) and reach the handlers of walk_dir.                              *)
(***************************************************************************)
Contents ==
    [ ok1 |-> [ decode |-> "ok", sha |-> "c1", size |-> 5, container |-> "mp3", length_s |-> 3,
                sample_rate |-> 44100, channels |-> 2, album |-> << "X" >>, artist |-> "P",
                track_number |-> 1, id3_version |-> Id3_230, artwork |-> << "p1" >> ],
      ok2 |-> [ decode |-> "ok", sha |-> "c2", size |-> 6, container |-> "mp3", length_s |-> 4,
                sample_rate |-> 44100, channels |-> 2, album |-> << "x" >>, artist |-> "P",
                track_number |-> NoneInt, id3_version |-> Id3_220, artwork |-> << "p1", "p2" >> ],
      nolen |-> [ decode |-> "ok", sha |-> "c3", size |-> 4, container |-> "mp3", length_s |-> NoneInt,
                sample_rate |-> 44100, channels |-> 2, album |-> << "X" >>, artist |-> "P",
                track_number |-> 2, id3_version |-> Id3_230, artwork |-> << "p1" >> ],
      bad_mp3 |-> [ decode |-> "mp3_unreadable", sha |-> "c4", size |-> 7 ],
      unreadable |-> [ decode |-> "unreadable", sha |-> NoneStr, size |-> 8 ],
      unrecognized |-> [ decode |-> "unrecognized", sha |-> "c6", size |-> 9 ],
      raise_mp3 |-> [ decode |-> "raise_mp3", sha |-> "c7", size |-> 10 ],
      raise_other |-> [ decode |-> "raise_other", sha |-> "c8", size |-> 11 ],
      album_A |-> [ decode |-> "ok", sha |-> "c9", size |-> 4, container |-> "mp3", length_s |-> NoneInt,
                sample_rate |-> 44100, channels |-> 2, album |-> << "A" >>, artist |-> "P",
                track_number |-> 1, id3_version |-> Id3_230, artwork |-> << "p1" >> ],
      album_b |-> [ decode |-> "ok", sha |-> "c10", size |-> 4, container |-> "mp3", length_s |-> NoneInt,
                sample_rate |-> 44100, channels |-> 2, album |-> << "b" >>, artist |-> "P",
                track_number |-> 1, id3_version |-> Id3_230, artwork |-> << "p1" >> ],
      album_C |-> [ decode |-> "ok", sha |-> "c11", size |-> 4, container |-> "mp3", length_s |-> NoneInt,
                sample_rate |-> 44100, channels |-> 2, album |-> << "C" >>, artist |-> "P",
                track_number |-> 1, id3_version |-> Id3_230, artwork |-> << "p1" >> ],
      untagged |-> [ decode |-> "ok", sha |-> "c12", size |-> 4, container |-> "mp3", length_s |-> NoneInt,
                sample_rate |-> 44100, channels |-> 2, album |-> << >>, artist |-> "",
                track_number |-> NoneInt, id3_version |-> Id3_230, artwork |-> << "p1" >> ] ]

ErrorRecord(file_path, error, content) ==
    [ path |-> file_path, file_name |-> PathName(file_path), error |-> error,
      content_hash |-> content.sha, size_bytes |-> content.size ]

\* the dict to_uniform_dict returns (only called when it returns)
to_uniform_dict(file_path, content) ==
    IF content.decode \in { "mp3_unreadable", "unreadable", "unrecognized" }
    THEN ErrorRecord(file_path, content.decode, content)
    ELSE [ path |-> file_path, file_name |-> PathName(file_path),
           container |-> content.container, length_s |-> content.length_s,
           sample_rate |-> content.sample_rate, channels |-> content.channels,
           album |-> content.album, artist |-> content.artist,
           track_number |-> content.track_number, id3_version |-> content.id3_version,
           artwork_hashes |-> content.artwork,
           content_hash |-> content.sha, size_bytes |-> content.size ]

Raises(content) == content.decode \in { "raise_mp3", "raise_other" }

\* the dict the except clauses of walk_dir append
WalkerErrorRecord(file_path, content) ==
    [ path |-> file_path, file_name |-> PathName(file_path),
      error |-> IF content.decode = "raise_mp3" THEN "mp3_unreadable" ELSE "unreadable" ]

(***************************************************************************)
(* Directory walker.  The tree is a chain of directories /m, /m/a, /m/a/b, *)
(* ... down to depth TreeDepth; tree is the set of its files.  os.scandir  *)
(* yields the entries of a directory in an arbitrary order: a frame of the *)
(* stack holds the entries not yet yielded and any of them comes next.     *)
(***************************************************************************)
SUPPORTED_EXTENSIONS ==
    { << ".", "m", "p", "3" >>, << ".", "f", "l", "a", "c" >>, << ".", "o", "g", "g" >>,
      << ".", "o", "g", "a" >>, << ".", "o", "p", "u", "s" >>, << ".", "w", "a", "v" >>,
      << ".", "m", "4", "a" >>, << ".", "a", "a", "c" >> }

should_consider(name_or_path) == Lower(Suffix(name_or_path)) \in SUPPORTED_EXTENSIONS

RootPath == << "/", "m" >>
DirNames == << "a", "b", "c", "d" >>

RECURSIVE DirPath(_)
DirPath(depth) == IF depth = 0 THEN RootPath ELSE DirPath(depth - 1) \o << "/", DirNames[depth] >>

Dirs == { DirPath(d) : d \in 0..TreeDepth }

EntryPath(dir, name) == dir \o << "/" >> \o name

\* the entries os.scandir(dir) yields
FileEntries(dir) == { [kind |-> "file", path |-> EntryPath(f.dir, f.name), content |-> f.content] :
                        f \in { g \in tree : g.dir = dir } }
DirEntries(dir) == { [kind |-> "dir", path |-> d, content |-> "none"] :
                        d \in { e \in Dirs : Len(e) = Len(dir) + 2 /\ SubSeq(e, 1, Len(dir)) = dir } }
ScanDir(dir) == FileEntries(dir) \cup DirEntries(dir)

\* scan_count_total_candidates: walk(current_dir, current_depth)
RECURSIVE CountWalk(_, _, _)
CountWalk(current_dir, current_depth, maxDepth) ==
    Cardinality({ e \in FileEntries(current_dir) : should_consider(PathName(e.path)) })
    + SumSeq(MapSeq(SortStrs({ e.path : e \in DirEntries(current_dir) }),
                    LAMBDA d : IF current_depth < maxDepth
                               THEN CountWalk(d, current_depth + 1, maxDepth) ELSE 0))

scan_count_total_candidates(root, maxDepth) == CountWalk(root, 0, maxDepth)

Top == stack[Len(stack)]
Pop == SubSeq(stack, 1, Len(stack) - 1)
TopWithout(e) == [stack EXCEPT ![Len(stack)].pending = @ \ {e}]

\* a line of debug_lines: the sentence, the path and the depth it prints.
\* debug_lines holds what a run with --debug collects; a run without it
\* collects nothing and the report under it never reads the list.
DebugLine(kind, path, depth) == [kind |-> kind, path |-> path, depth |-> depth]

\* get_output calls scan_folder_for_audio_recursive: the pre-pass count, then walk_dir(root, 0)
StartScan ==
    /\ s_pc \in {"ready", "done"}
    /\ scans < MaxScans
    /\ s_pc' = "walking"
    /\ total_candidates' = scan_count_total_candidates(RootPath, max_depth)
    /\ processed_candidates' = 0
    /\ results' = << >>
    /\ stack' = << [current_dir |-> RootPath, current_depth |-> 0, pending |-> ScanDir(RootPath)] >>
    /\ debug_lines' = << DebugLine("entering", RootPath, 0) >>
    /\ UNCHANGED << tree, max_depth, computed_per_album, output, prev_output, scans >>

\* a file entry whose name is not considered is skipped
SkipFile(e) ==
    /\ s_pc = "walking" /\ stack # << >>
    /\ e \in Top.pending /\ e.kind = "file"
    /\ ~should_consider(PathName(e.path))
    /\ stack' = TopWithout(e)
    /\ UNCHANGED << s_pc, tree, max_depth, results, total_candidates, processed_candidates,
                    debug_lines, computed_per_album, output, prev_output, scans >>

\* a candidate file: to_uniform_dict returns and its dict is appended
VisitFile(e) ==
    /\ s_pc = "walking" /\ stack # << >>
    /\ e \in Top.pending /\ e.kind = "file"
    /\ should_consider(PathName(e.path))
    /\ ~Raises(Contents[e.content])
    /\ results' = Append(results, to_uniform_dict(e.path, Contents[e.content]))
    /\ processed_candidates' = processed_candidates + 1
    /\ stack' = TopWithout(e)
    /\ UNCHANGED << s_pc, tree, max_depth, total_candidates, debug_lines, computed_per_album,
                    output, prev_output, scans >>

\* a candidate file: to_uniform_dict raises and an except clause of walk_dir
\* appends its own error dict; the loop goes on with the next entry
VisitFileRaising(e) ==
    /\ s_pc = "walking" /\ stack # << >>
    /\ e \in Top.pending /\ e.kind = "file"
    /\ should_consider(PathName(e.path))
    /\ Raises(Contents[e.content])
    /\ results' = Append(results, WalkerErrorRecord(e.path, Contents[e.content]))
    /\ processed_candidates' = processed_candidates + 1
    /\ debug_lines' = Append(debug_lines,
                             DebugLine(WalkerErrorRecord(e.path, Contents[e.content]).error, e.path, NoneInt))
    /\ stack' = TopWithout(e)
    /\ UNCHANGED << s_pc, tree, max_depth, total_candidates, computed_per_album, output,
                    prev_output, scans >>

\* a walker that also descends into the directories at the depth limit
EnterDirAtLimit(e) ==
    /\ s_pc = "walking" /\ stack # << >>
    /\ e \in Top.pending /\ e.kind = "dir"
    /\ Top.current_depth <= max_depth
    /\ stack' = Append(TopWithout(e),
                       [current_dir |-> e.path, current_depth |-> Top.current_depth + 1,
                        pending |-> ScanDir(e.path)])
    /\ debug_lines' = Append(debug_lines, DebugLine("entering", e.path, Top.current_depth + 1))
    /\ UNCHANGED << s_pc, tree, max_depth, results, total_candidates, processed_candidates,
                    computed_per_album, output, prev_output, scans >>

\* a directory entry below the depth limit: walk_dir(entry.path, current_depth + 1)
EnterDir(e) ==
    /\ s_pc = "walking" /\ stack # << >>
    /\ e \in Top.pending /\ e.kind = "dir"
    /\ Top.current_depth < max_depth
    /\ stack' = Append(TopWithout(e),
                       [current_dir |-> e.path, current_depth |-> Top.current_depth + 1,
                        pending |-> ScanDir(e.path)])
    /\ debug_lines' = Append(debug_lines, DebugLine("entering", e.path, Top.current_depth + 1))
    /\ UNCHANGED << s_pc, tree, max_depth, results, total_candidates, processed_candidates,
                    computed_per_album, output, prev_output, scans >>

\* a directory entry at the depth limit is not descended into
SkipDir(e) ==
    /\ s_pc = "walking" /\ stack # << >>
    /\ e \in Top.pending /\ e.kind = "dir"
    /\ ~(Top.current_depth < max_depth)
    /\ stack' = TopWithout(e)
    /\ debug_lines' = Append(debug_lines, DebugLine("depth_limit", e.path, NoneInt))
    /\ UNCHANGED << s_pc, tree, max_depth, results, total_candidates, processed_candidates,
                    computed_per_album, output, prev_output, scans >>

\* os.scandir is exhausted: walk_dir returns to its caller
LeaveDir ==
    /\ s_pc = "walking" /\ stack # << >>
    /\ Top.pending = {}
    /\ Len(stack) > 1
    /\ stack' = Pop
    /\ UNCHANGED << s_pc, tree, max_depth, results, total_candidates, processed_candidates,
                    debug_lines, computed_per_album, output, prev_output, scans >>

(***************************************************************************)
(* Report: get_output after the scan.  The text is a sequence of lines; a  *)
(* line is a record naming the sentence and carrying the values it         *)
(* interpolates.  A separator line names the line whose length it copies.  *)
(* output maps each setting of (per_album, no_quick_stats, debug_enabled)  *)
(* to the text get_output returns under it.                                *)
(***************************************************************************)
\* list.sort(key=...) / sorted(..., key=...): stable, keys[i] is the key of seq[i]
RECURSIVE StableSortByKey(_, _)
StableSortByKey(seq, keys) ==
    IF seq = << >> THEN << >>
    ELSE LET minimal == { i \in DOMAIN seq : \A j \in DOMAIN seq : ~StrLess(keys[j], keys[i]) }
             first   == CHOOSE i \in minimal : \A j \in minimal : i <= j
             Without(q) == [k \in 1..(Len(q) - 1) |-> IF k < first THEN q[k] ELSE q[k + 1]]
         IN  << seq[first] >> \o StableSortByKey(Without(seq), Without(keys))

\* results.sort(key=lambda info: info.get("file_name", "").lower())
SortResults(infos) ==
    StableSortByKey(infos, [i \in DOMAIN infos |-> Lower(Get(infos[i], "file_name", << >>))])

\* Counter(values).most_common(1)[0][0]: the most frequent value, the first
\* seen among equally frequent ones
MostCommon(values) ==
    LET keys     == Distinct(values)
        Count(v) == Cardinality({ i \in DOMAIN values : values[i] = v })
        best     == CHOOSE i \in DOMAIN keys :
                        /\ \A j \in DOMAIN keys : Count(keys[j]) <= Count(keys[i])
                        /\ \A j \in 1..(i - 1) : Count(keys[j]) < Count(keys[i])
    IN  keys[best]

UnknownAlbum  == << "U", "n", "k", "n", "o", "w", "n", " ", "A", "l", "b", "u", "m" >>

resolve_display_album(files) ==
    LET raw_names == SelectSeq(MapSeq(files, LAMBDA fi : Get(fi, "album", << >>)),
                               LAMBDA a : a # << >>)
    IN  IF raw_names # << >> THEN MostCommon(raw_names) ELSE UnknownAlbum

resolve_display_artist(files) ==
    LET raw_artists == SelectSeq(MapSeq(files, LAMBDA fi : Get(fi, "artist", "")), Truthy)
    IN  IF raw_artists # << >> THEN MostCommon(raw_artists) ELSE "Unknown Artist"

\* format_bytes: << hundredths of the unit, index of the unit (B, KB, MB, GB, TB) >>
RECURSIVE UnitIndex(_, _)
UnitIndex(num_bytes, scale) ==
    IF num_bytes >= 1024 * scale /\ scale < 1024 * 1024 THEN 1 + UnitIndex(num_bytes, scale * 1024) ELSE 0

RECURSIVE Pow1024(_)
Pow1024(k) == IF k = 0 THEN 1 ELSE 1024 * Pow1024(k - 1)

format_bytes(num_bytes) ==
    LET unit_index == UnitIndex(num_bytes, 1)
        scale      == Pow1024(unit_index)
    IN  << (200 * num_bytes + scale) \div (2 * scale), unit_index >>

\* format_duration_total: << number of the branch taken, the values it prints >>
format_duration_total(total_seconds) ==
    LET minutes == total_seconds \div 60
        hours   == minutes \div 60
        days    == hours \div 24
        weeks   == days \div 7
    IN  IF total_seconds < 60 THEN << 1, total_seconds, 0, 0 >>
        ELSE IF minutes < 60 THEN << 2, minutes, total_seconds % 60, 0 >>
        ELSE IF hours < 24 THEN << 3, hours, minutes % 60, total_seconds % 60 >>
        ELSE IF days < 7 THEN << 4, days, hours % 24, minutes % 60 >>
        ELSE IF weeks < 4 THEN << 5, weeks, days % 7, hours % 24 >>
        ELSE IF (days % 7) \div 30 < 12 THEN << 6, (days % 7) \div 30, (days % 7) % 30, 0 >>
        ELSE << 7, ((days % 7) \div 30) \div 12, ((days % 7) \div 30) % 12, 0 >>

Line(kind, tag, tag2, text, nums, msgs) ==
    [kind |-> kind, tag |-> tag, tag2 |-> tag2, text |-> text, nums |-> nums, msgs |-> msgs]

NoMusicText == << Line("no_music", "", "", << >>, << >>, << >>) >>

\* a header that tags a Warn album as Info
LevelTagWarnAsInfo(level) == IF level = "CRIT" THEN "[CRIT]" ELSE "[INFO]"

LevelTag(level) == IF level = "CRIT" THEN "[CRIT]" ELSE IF level = "WARN" THEN "[WARN]" ELSE "[INFO]"

\* the multi-line legend
Legend ==
    << Line("blank", "", "", << >>, << >>, << >>),
       Line("legend_title", "", "", << >>, << >>, << >>),
       Line("legend", "[CRIT]", "", << >>, << >>, << >>),
       Line("legend", "[WARN]", "", << >>, << >>, << >>),
       Line("legend", "[INFO]", "", << >>, << >>, << >>) >>

\* a report that ends with the legend whether or not an album was printed
AlbumSectionAlwaysLegend(album_blocks, no_quick_stats) ==
    (IF album_blocks = << >>
     THEN (IF no_quick_stats THEN << Line("sep", "title", "", << >>, << >>, << >>) >> ELSE << >>)
          \o << Line("no_issues", "", "", << >>, << >>, << >>) >>
     ELSE album_blocks)
    \o Legend

\* the part of the report below the header: the fixed sentence when no album
\* produced messages, else the album blocks and the legend
AlbumSection(album_blocks, no_quick_stats) ==
    IF album_blocks = << >>
    THEN (IF no_quick_stats THEN << Line("sep", "title", "", << >>, << >>, << >>) >> ELSE << >>)
         \o << Line("no_issues", "", "", << >>, << >>, << >>) >>
    ELSE album_blocks \o Legend

Flags == BOOLEAN \X BOOLEAN \X BOOLEAN   \* (per_album, no_quick_stats, debug_enabled)

\* the optional debug appendix
DebugAppendix(debug_enabled, debugLines) ==
    IF debug_enabled /\ debugLines # << >>
    THEN << Line("blank", "", "", << >>, << >>, << >>),
            Line("debug", "", "", << >>, << >>, debugLines) >>
    ELSE << >>

\* an empty scan that still appends the debug appendix
EmptyScanOutputWithDebug(debug_enabled, debugLines) ==
    NoMusicText \o DebugAppendix(debug_enabled, debugLines)

\* if not recognized_files: the return that precedes every use of the flags
\* and of debug_lines
EmptyScanOutput(debug_enabled, debugLines) == NoMusicText

\* the first pass of get_output over the albums: level and messages of each
ComputePerAlbum(albums, setFirst) ==
    [k \in DOMAIN albums |-> build_album_messages(albums[k], setFirst)]

CountLevel(ordered_album_keys, computed, level) ==
    Cardinality({ i \in DOMAIN ordered_album_keys : computed[ordered_album_keys[i]].level = level })

\* an ordering of the albums by display name as written, upper case first
OrderAlbumKeysCaseSensitive(keys, albums) ==
    StableSortByKey(keys, [i \in DOMAIN keys |-> resolve_display_album(albums[keys[i]])])

\* sorted(albums_by_key.keys(), key=... resolve_display_album(...).lower())
OrderAlbumKeys(keys, albums) ==
    StableSortByKey(keys, [i \in DOMAIN keys |-> Lower(resolve_display_album(albums[keys[i]]))])

\* the text get_output returns for files that were recognized
ReportText(root, recognized_files, albums, ordered_album_keys, computed, health, debugLines, per_album, no_quick_stats, debug_enabled) ==
    LET total_albums_        == Len(ordered_album_keys)
        total_tracks         == Len(recognized_files)
        total_size_bytes     == SumSeq(MapSeq(recognized_files, SizeOrZero))
        total_length_seconds == SumSeq(MapSeq(recognized_files, LengthOrZero))
        health_line == Line("health", "", "", << >>, << BarFilled(health), ClampPercent(health) >>, << >>)
        quick_line  == Line("quick", "", "", << >>,
                            << total_albums_, total_tracks >> \o format_bytes(total_size_bytes)
                               \o format_duration_total(total_length_seconds), << >>)
        Sep(basis)  == Line("sep", basis, "", << >>, << >>, << >>)
        head == << Line("title", "", "", root, << >>, << >>) >>
                \o (IF ~no_quick_stats
                    THEN << Sep("quick_line"), health_line, quick_line, Sep("quick_line") >>
                    ELSE << Sep("health_line"), health_line, Sep("health_line") >>)
                \o << Line("blank", "", "", << >>, << >>, << >>) >>
        shown_keys == SelectSeq(ordered_album_keys, LAMBDA k : computed[k].level # NoneStr)
        album_blocks ==
            [i \in DOMAIN shown_keys |->
                LET k == shown_keys[i]
                IN  Line("album", LevelTag(computed[k].level), resolve_display_artist(albums[k]),
                         resolve_display_album(albums[k]),
                         IF per_album
                         THEN format_duration_total(computed[k].total_seconds)
                              \o format_bytes(computed[k].total_size_bytes)
                         ELSE << >>,
                         computed[k].messages)]
    IN  head \o AlbumSection(album_blocks, no_quick_stats) \o DebugAppendix(debug_enabled, debugLines)

\* the end of the scan and the rest of get_output: results.sort, the filter on
\* "error", group_by_album, the ordering of the albums, the diagnostics of
\* each album, the health score and the text
FinishScan ==
    /\ s_pc = "walking" /\ Len(stack) = 1 /\ Top.pending = {}
    /\ LET sorted           == SortResults(results)
           recognized_files == SelectSeq(sorted, LAMBDA fi : "error" \notin DOMAIN fi)
           grouped          == group_by_album(recognized_files)
           albums           == grouped.groups
           ordered_album_keys == OrderAlbumKeys(grouped.keys, albums)
       IN  /\ results' = sorted
           /\ IF recognized_files = << >>
              THEN /\ output' = [f \in Flags |-> EmptyScanOutput(f[3], debug_lines)]
                   /\ computed_per_album' = << >>
                   /\ UNCHANGED h_vars
              ELSE \E sf \in SetFirstChoices(recognized_files) :
                     \E computed \in { ComputePerAlbum(albums, sf) } :
                       \E health \in HealthOutcomes(Len(ordered_album_keys),
                                                    CountLevel(ordered_album_keys, computed, "WARN"),
                                                    CountLevel(ordered_album_keys, computed, "CRIT")) :
                          /\ computed_per_album' = computed
                          /\ total_albums' = Len(ordered_album_keys)
                          /\ warn_albums' = CountLevel(ordered_album_keys, computed, "WARN")
                          /\ crit_albums' = CountLevel(ordered_album_keys, computed, "CRIT")
                          /\ health_percent' = health
                          /\ bar_percent' = ClampPercent(health)
                          /\ bar_filled' = BarFilled(health)
                          /\ h_pc' = "scored"
                          /\ output' = [f \in Flags |->
                                           ReportText(RootPath, recognized_files, albums,
                                                      ordered_album_keys, computed, health,
                                                      debug_lines, f[1], f[2], f[3])]
    /\ prev_output' = output
    /\ scans' = scans + 1
    /\ stack' = << >>
    /\ s_pc' = "done"
    /\ UNCHANGED << tree, max_depth, total_candidates, processed_candidates, debug_lines >>

(***************************************************************************)
(* Scanned trees.                                                          *)
(***************************************************************************)
Txt_T_MP3 == << "T", ".", "M", "P", "3" >>
Txt_t_mp3 == << "t", ".", "m", "p", "3" >>
Txt_u_oga == << "u", ".", "o", "g", "a" >>
Txt_n_txt == << "n", ".", "t", "x", "t" >>

DefaultMaxDepth == 5

\* no two files of a directory have the same name
IsTree(files) == \A f, g \in files : (f.dir = g.dir /\ f.name = g.name) => f = g

\* trees of the root and one album folder whose files differ in content
ContentFiles ==
    [dir : { DirPath(0), DirPath(1) }, name : { Txt_T_MP3, Txt_t_mp3 },
     content : { "ok1", "ok2", "nolen", "bad_mp3", "unreadable", "unrecognized", "raise_mp3", "raise_other" }]
    \cup { [dir |-> DirPath(0), name |-> Txt_n_txt, content |-> "ok1"] }

\* trees down to depth TreeDepth whose files differ in place and name
WalkFiles ==
    [dir : Dirs, name : { Txt_T_MP3, Txt_u_oga, Txt_n_txt }, content : { "ok1", "raise_other" }]

\* the trees of at most n files taken from files
RECURSIVE TreesUpTo(_, _)
TreesUpTo(files, n) ==
    IF n = 0 THEN { {} }
    ELSE LET smaller == TreesUpTo(files, n - 1)
         IN  smaller \cup { t \cup {f} : t \in smaller, f \in files }

SInit(files, maxFiles, depths) ==
    /\ s_pc = "ready"
    /\ tree \in { t \in TreesUpTo(files, maxFiles) : IsTree(t) }
    /\ max_depth \in depths
    /\ stack = << >> /\ results = << >> /\ total_candidates = 0 /\ processed_candidates = 0
    /\ debug_lines = << >>
    /\ computed_per_album = << >> /\ output = << >> /\ prev_output = << >> /\ scans = 0

ScanNext ==
    \/ StartScan /\ UNCHANGED << h_vars, a_vars, g_vars, m_vars >>
    \/ \E e \in UNION { ScanDir(d) : d \in Dirs } :
          \/ SkipFile(e) /\ UNCHANGED << h_vars, a_vars, g_vars, m_vars >>
          \/ VisitFile(e) /\ UNCHANGED << h_vars, a_vars, g_vars, m_vars >>
          \/ VisitFileRaising(e) /\ UNCHANGED << h_vars, a_vars, g_vars, m_vars >>
          \/ EnterDir(e) /\ UNCHANGED << h_vars, a_vars, g_vars, m_vars >>
          \/ SkipDir(e) /\ UNCHANGED << h_vars, a_vars, g_vars, m_vars >>
    \/ LeaveDir /\ UNCHANGED << h_vars, a_vars, g_vars, m_vars >>
    \/ FinishScan /\ UNCHANGED << a_vars, g_vars, m_vars >>

\* scans of trees whose files differ in content, with the default --max-depth
Init == SInit(ContentFiles, MaxTreeFiles, { DefaultMaxDepth }) /\ HIdle /\ AIdle /\ GIdle /\ MIdle
Spec == Init /\ [][ScanNext]_vars

\* trees of albums that differ in their album tags: every file is an MP3
\* without duration, so that every album has a block in the report
OrderFiles ==
    [dir : Dirs, name : { Txt_T_MP3 }, content : { "album_A", "album_b", "album_C", "untagged" }]
    \cup { [dir |-> DirPath(0), name |-> Txt_u_oga, content |-> "album_C"] }

OrderInit == SInit(OrderFiles, MaxWalkFiles, { DefaultMaxDepth }) /\ HIdle /\ AIdle /\ GIdle /\ MIdle
SpecOrder == OrderInit /\ [][ScanNext]_vars

\* scans of deep trees under every --max-depth from -1 to MaxDepthBound
WalkInit == SInit(WalkFiles, MaxWalkFiles, -1..MaxDepthBound) /\ HIdle /\ AIdle /\ GIdle /\ MIdle
SpecWalk == WalkInit /\ [][ScanNext]_vars

(***************************************************************************)
(* Command line run: main.  The arguments are the parsed flags; the folder *)
(* is a directory or not; the output path names a file that exists before  *)
(* the run or not.  The three sinks are the file at the output path, the   *)
(* clipboard and the terminal; terminal_out lists what print wrote.  The   *)
(* progress bar painted while scanning is not part of the state.           *)
(***************************************************************************)
Arguments ==
    [to_file : BOOLEAN, copy : BOOLEAN, terminal : BOOLEAN,
     per_album : BOOLEAN, no_quick_stats : BOOLEAN, debug : BOOLEAN]

\* what a file found at the output path holds before the run
OldContent == << Line("old", "", "", << >>, << >>, << >>) >>

Printed(kind, text) == [kind |-> kind, text |-> text]

\* output_text = get_output(root, args.debug, args.max_depth, args.per_album, args.no_quick_stats, ...)
OutputText == output[<< args.per_album, args.no_quick_stats, args.debug >>]

MInit ==
    /\ m_pc = "start"
    /\ args \in Arguments
    /\ root_is_dir \in BOOLEAN
    /\ output_file \in { [exists |-> FALSE, text |-> << >>], [exists |-> TRUE, text |-> OldContent] }
    /\ clipboard = [copied |-> FALSE, text |-> << >>]
    /\ terminal_out = << >>
    /\ exit_code = NoneInt

\* Validate the input folder early
ValidateFolder ==
    /\ m_pc = "start"
    /\ IF ~root_is_dir
       THEN /\ terminal_out' = Append(terminal_out, Printed("error_not_a_directory", << >>))
            /\ exit_code' = 1
            /\ m_pc' = "exited"
       ELSE /\ m_pc' = "get_output"
            /\ UNCHANGED << terminal_out, exit_code >>
    /\ UNCHANGED << args, root_is_dir, output_file, clipboard >>

\* a file sink that writes whether or not the target exists
SaveToFileOverwriting ==
    /\ m_pc = "get_output" /\ s_pc = "done"
    /\ IF ~args.to_file
       THEN /\ m_pc' = "copy"
            /\ UNCHANGED << output_file, terminal_out, exit_code >>
       ELSE /\ output_file' = [exists |-> TRUE, text |-> OutputText]
            /\ terminal_out' = Append(terminal_out, Printed("file_written", << >>))
            /\ m_pc' = "copy"
            /\ UNCHANGED exit_code
    /\ UNCHANGED << args, root_is_dir, clipboard >>

\* Save to file if requested (get_output has returned)
SaveToFile ==
    /\ m_pc = "get_output" /\ s_pc = "done"
    /\ IF ~args.to_file
       THEN /\ m_pc' = "copy"
            /\ UNCHANGED << output_file, terminal_out, exit_code >>
       ELSE IF output_file.exists
       THEN /\ terminal_out' = Append(terminal_out, Printed("error_output_exists", << >>))
            /\ exit_code' = 1
            /\ m_pc' = "exited"
            /\ UNCHANGED output_file
       ELSE /\ output_file' = [exists |-> TRUE, text |-> OutputText]
            /\ terminal_out' = Append(terminal_out, Printed("file_written", << >>))
            /\ m_pc' = "copy"
            /\ UNCHANGED exit_code
    /\ UNCHANGED << args, root_is_dir, clipboard >>

\* Copy to clipboard if requested; pyperclip.copy returns, or raises when the
\* system offers no clipboard and the exception ends the run
CopyToClipboard ==
    /\ m_pc = "copy"
    /\ IF ~args.copy
       THEN /\ m_pc' = "terminal"
            /\ UNCHANGED << clipboard, terminal_out, exit_code >>
       ELSE \/ /\ clipboard' = [copied |-> TRUE, text |-> OutputText]
               /\ terminal_out' = Append(terminal_out, Printed("copied", << >>))
               /\ m_pc' = "terminal"
               /\ UNCHANGED exit_code
            \/ /\ exit_code' = 1
               /\ m_pc' = "exited"
               /\ UNCHANGED << clipboard, terminal_out >>
    /\ UNCHANGED << args, root_is_dir, output_file >>

\* a terminal sink that echoes only when --terminal is given
EchoOnlyWhenRequested ==
    /\ m_pc = "terminal"
    /\ IF args.terminal
       THEN terminal_out' = Append(terminal_out, Printed("report", OutputText))
       ELSE UNCHANGED terminal_out
    /\ exit_code' = 0
    /\ m_pc' = "exited"
    /\ UNCHANGED << args, root_is_dir, output_file, clipboard >>

\* Print to terminal if requested, or when no sink was chosen; main returns
EchoToTerminal ==
    /\ m_pc = "terminal"
    /\ IF args.terminal \/ (~args.to_file /\ ~args.copy)
       THEN terminal_out' = Append(terminal_out, Printed("report", OutputText))
       ELSE UNCHANGED terminal_out
    /\ exit_code' = 0
    /\ m_pc' = "exited"
    /\ UNCHANGED << args, root_is_dir, output_file, clipboard >>

\* the folders main is run on: a Crit album, a file of another kind and a
\* file whose decoding fails
MainFiles ==
    { [dir |-> DirPath(0), name |-> Txt_T_MP3, content |-> "nolen"],
      [dir |-> DirPath(0), name |-> Txt_n_txt, content |-> "ok1"],
      [dir |-> DirPath(1), name |-> Txt_t_mp3, content |-> "raise_other"],
      [dir |-> DirPath(1), name |-> Txt_T_MP3, content |-> "ok1"] }

MainInit ==
    /\ MInit
    /\ SInit(MainFiles, MaxTreeFiles, { DefaultMaxDepth })
    /\ ~root_is_dir => tree = {}
    /\ HIdle /\ AIdle /\ GIdle

\* main calls get_output once, between the validation and the sinks
MainNext ==
    \/ ValidateFolder /\ UNCHANGED << h_vars, a_vars, g_vars, s_vars >>
    \/ m_pc = "get_output" /\ s_pc = "ready" /\ StartScan /\ UNCHANGED << h_vars, a_vars, g_vars, m_vars >>
    \/ \E e \in UNION { ScanDir(d) : d \in Dirs } :
          \/ SkipFile(e) /\ UNCHANGED << h_vars, a_vars, g_vars, m_vars >>
          \/ VisitFile(e) /\ UNCHANGED << h_vars, a_vars, g_vars, m_vars >>
          \/ VisitFileRaising(e) /\ UNCHANGED << h_vars, a_vars, g_vars, m_vars >>
          \/ EnterDir(e) /\ UNCHANGED << h_vars, a_vars, g_vars, m_vars >>
          \/ SkipDir(e) /\ UNCHANGED << h_vars, a_vars, g_vars, m_vars >>
    \/ LeaveDir /\ UNCHANGED << h_vars, a_vars, g_vars, m_vars >>
    \/ FinishScan /\ UNCHANGED << a_vars, g_vars, m_vars >>
    \/ SaveToFile /\ UNCHANGED << h_vars, a_vars, g_vars, s_vars >>
    \/ CopyToClipboard /\ UNCHANGED << h_vars, a_vars, g_vars, s_vars >>
    \/ EchoToTerminal /\ UNCHANGED << h_vars, a_vars, g_vars, s_vars >>

SpecMain == MainInit /\ [][MainNext]_vars

HealthInit == HInit /\ AIdle /\ GIdle /\ SIdle /\ MIdle

HealthNext ==
    \/ \E level \in Levels : CountAlbum(level) /\ UNCHANGED << a_vars, g_vars, s_vars, m_vars >>
    \/ ComputeHealth /\ UNCHANGED << a_vars, g_vars, s_vars, m_vars >>

SpecHealth == HealthInit /\ [][HealthNext]_vars

\* the counters after the first pass over a large library: at most
\* EdgeAlbums albums are flagged, or at most EdgeAlbums albums are not Crit
LibraryCounts ==
    { n \in (0..MaxLibrary) \X (0..EdgeAlbums) \X (0..EdgeAlbums) : n[2] + n[3] <= Min(n[1], EdgeAlbums) }
    \cup { << n[1], n[2], n[1] - n[3] >> :
               n \in { m \in (EdgeAlbums..MaxLibrary) \X (0..EdgeAlbums) \X (0..EdgeAlbums) : m[2] <= m[3] } }

LibraryInit ==
    /\ h_pc = "counting"
    /\ \E n \in LibraryCounts :
          total_albums = n[1] /\ warn_albums = n[2] /\ crit_albums = n[3]
    /\ health_percent = NoneInt /\ bar_percent = NoneInt /\ bar_filled = NoneInt
    /\ AIdle /\ GIdle /\ SIdle /\ MIdle

LibraryNext == ComputeHealth /\ UNCHANGED << a_vars, g_vars, s_vars, m_vars >>

SpecLibrary == LibraryInit /\ [][LibraryNext]_vars

(***************************************************************************)
(* Properties.                                                             *)
(***************************************************************************)
InfoKinds == { "multiple_formats" }
CritKinds == { "mp3_unreadable" }
KindsOf(msgs) == { msgs[i].kind : i \in DOMAIN msgs }
CountKind(msgs, kind) == Cardinality({ i \in DOMAIN msgs : msgs[i].kind = kind })

\* C1: the final severity of an album is the highest tier (Crit > Warn > Info >
\* None) for which a rule produced a message; the final list is the Warn
\* messages followed by the Crit messages when a Crit message exists, the Warn
\* messages when Warn is the highest tier, the Info messages when Info is the
\* highest tier; no Info message is in the final list when a Warn or Crit
\* message exists.
C1_SeverityResolution ==
    a_pc = "built" =>
        /\ (a_crit_msgs # << >>) =>
               a_level = "CRIT" /\ a_messages = a_warn_msgs \o a_crit_msgs
        /\ (a_crit_msgs = << >> /\ a_warn_msgs # << >>) =>
               a_level = "WARN" /\ a_messages = a_warn_msgs
        /\ (a_crit_msgs = << >> /\ a_warn_msgs = << >> /\ a_info_msgs # << >>) =>
               a_level = "INFO" /\ a_messages = a_info_msgs
        /\ (a_crit_msgs = << >> /\ a_warn_msgs = << >> /\ a_info_msgs = << >>) =>
               a_level = NoneStr /\ a_messages = << >>
        /\ (a_crit_msgs # << >> \/ a_warn_msgs # << >>) =>
               KindsOf(a_messages) \cap InfoKinds = {}
        /\ KindsOf(a_info_msgs) \subseteq InfoKinds
        /\ KindsOf(a_crit_msgs) \subseteq CritKinds
        /\ KindsOf(a_warn_msgs) \cap (InfoKinds \cup CritKinds) = {}

\* an album for which rules of all three tiers fired has been resolved
C1_Witness ==
    /\ a_pc = "built"
    /\ a_info_msgs # << >> /\ a_warn_msgs # << >> /\ a_crit_msgs # << >>
    /\ a_level = "CRIT"

\* C2: the health percentage is an integer in [0,100], as computed and as shown
\* by the health bar, for every album count >= 0 and every number of Warn and
\* Crit albums among them.
C2_HealthInRange ==
    h_pc = "scored" =>
        /\ health_percent \in 0..100
        /\ bar_percent = health_percent
        /\ bar_filled \in 0..BarWidth

\* a library with Warn and Crit albums has been scored
C2_Witness ==
    h_pc = "scored" /\ warn_albums > 0 /\ crit_albums > 0 /\ total_albums > warn_albums + crit_albums

\* C3: with albumCount > 0 the health differs from
\* 100 * (1 - (warnCount + 2 critCount) / (2 albumCount)) by at most 1/2, the
\* counts being numbers of albums; an empty library has health 100.
C3_HealthFormula ==
    h_pc = "scored" =>
        LET exact2T == 100 * (2 * total_albums - (warn_albums + 2 * crit_albums))
            diff    == 2 * total_albums * health_percent - exact2T
        IN  /\ total_albums = 0 => health_percent = 100
            /\ total_albums > 0 => diff <= total_albums /\ -diff <= total_albums

\* a score whose exact value is not an integer has been rounded up
C3_Witness ==
    /\ h_pc = "scored" /\ total_albums > 0
    /\ 2 * total_albums * health_percent > 100 * (2 * total_albums - (warn_albums + 2 * crit_albums))

\* the number of content-hash groups of the album that hold two or more records
DupGroupCount(files) ==
    Cardinality({ h \in { HashOf(files[i]) : i \in DOMAIN files } :
                    Truthy(h) /\ Cardinality({ i \in DOMAIN files : HashOf(files[i]) = h }) >= 2 })

\* C4: the album gets min(3, D) 'Duplicate audio content detected' sentences, D
\* being the number of content-hash groups with at least 2 records; the
\* sentence about groups not shown appears at most once, and exactly when D > 3.
C4_DuplicateReporting ==
    a_pc = "built" =>
        LET D == DupGroupCount(album_files)
        IN  /\ CountKind(a_warn_msgs, "duplicate") = Min(3, D)
            /\ CountKind(a_warn_msgs, "more_duplicate_groups") <= 1
            /\ (CountKind(a_warn_msgs, "more_duplicate_groups") = 1) <=> (D > 3)

\* the groups a record of the input occurs in, and how often it occurs in one
GroupsHolding(fi) == { k \in DOMAIN albums_by_key : fi \in Range(albums_by_key[k]) }
Occurrences(fi, k) == Cardinality({ j \in DOMAIN albums_by_key[k] : albums_by_key[k][j] = fi })

\* C10: group_by_album partitions its input: every record is in exactly one
\* group and occurs once there, error records only under __errors__, a
\* non-error record under the canonicalized parent directory when any record
\* carries a path and otherwise under the canonicalized album tag (unknown for
\* an empty or missing tag), and each group lists its records in input order.
C10_GroupPartition ==
    g_pc = "grouped" =>
        /\ \A i \in DOMAIN file_infos :
              LET fi == file_infos[i]
              IN  /\ Cardinality(GroupsHolding(fi)) = 1
                  /\ \A k \in GroupsHolding(fi) : Occurrences(fi, k) = 1
                  /\ ("error" \in DOMAIN fi) => GroupsHolding(fi) = { ErrorsKey }
                  /\ ("error" \notin DOMAIN fi /\ HasAnyPath(file_infos)) =>
                        GroupsHolding(fi) =
                            { canonicalize_string(PathParent(Get(fi, "path", << >>))) }
                  /\ ("error" \notin DOMAIN fi /\ ~HasAnyPath(file_infos)) =>
                        GroupsHolding(fi) =
                            { IF canonicalize_string(Get(fi, "album", << >>)) = << >>
                              THEN UnknownKey
                              ELSE canonicalize_string(Get(fi, "album", << >>)) }
        /\ \A k \in DOMAIN albums_by_key :
              /\ albums_by_key[k] # << >>
              /\ Range(albums_by_key[k]) \subseteq Range(file_infos)
              /\ albums_by_key[k] = SelectSeq(file_infos, LAMBDA fi : fi \in Range(albums_by_key[k]))
        /\ Range(key_order) = DOMAIN albums_by_key

\* records whose directories differ only in letter case were grouped by folder
\* under one key, next to an error record under __errors__
C10_Witness ==
    /\ g_pc = "grouped"
    /\ Len(file_infos) = 3
    /\ << "/", "m", "/", "a" >> \in DOMAIN albums_by_key
    /\ \E i, j \in DOMAIN albums_by_key[<< "/", "m", "/", "a" >>] :
          PathParent(albums_by_key[<< "/", "m", "/", "a" >>][i].path)
              # PathParent(albums_by_key[<< "/", "m", "/", "a" >>][j].path)
    /\ ErrorsKey \in DOMAIN albums_by_key

\* C5: on an unchanged tree and with the same flags every scan returns the
\* same report text, whatever order the entries of a directory are yielded in.
C5_ScanIdempotent ==
    (s_pc = "done" /\ scans >= 2) => output = prev_output

\* depth of a directory of the tree below the root (the root has depth 0)
DepthOf(dir) == (Len(dir) - Len(RootPath)) \div 2

\* the candidate files in the directories of depth at most bound
FilesWithin(bound) ==
    { f \in tree : DepthOf(f.dir) <= bound /\ Lower(Suffix(f.name)) \in SUPPORTED_EXTENSIONS }

DepthBoundHolds(bound) ==
    /\ \A i \in DOMAIN stack : DepthOf(stack[i].current_dir) <= bound
    /\ \A i \in DOMAIN results :
          /\ DepthOf(PathParent(results[i].path)) <= bound
          /\ Lower(Suffix(results[i].file_name)) \in SUPPORTED_EXTENSIONS
    /\ s_pc \in {"walking", "done"} => total_candidates = Cardinality(FilesWithin(bound))
    /\ s_pc = "done" => Len(results) = total_candidates

\* C6 as claimed: a file is a candidate only if its directory is at depth <=
\* maxDepth and its extension is supported; no directory deeper than maxDepth
\* is entered; the pre-pass count equals the number of records collected.
C6_DepthBound == DepthBoundHolds(max_depth)

\* C6 as amended: the same with the root directory always scanned, i.e. with
\* the bound max(maxDepth, 0).
C6_DepthBoundFromRoot == DepthBoundHolds(Max(max_depth, 0))

\* a scan has finished on a tree with a candidate file one level below the bound
C6_Witness ==
    /\ s_pc = "done"
    /\ max_depth >= 0
    /\ \E f \in tree : DepthOf(f.dir) = max_depth + 1 /\ should_consider(f.name)
    /\ Len(results) > 0

\* the album key of a directory of the tree
KeyOfDir(dir) == canonicalize_string(dir)

IsMp3Name(name) == Lower(Suffix(name)) = << ".", "m", "p", "3" >>

\* the mp3 files of a directory that failed to decode or have no duration
UnreadableMp3s(dir) ==
    { f \in tree :
        /\ f.dir = dir /\ IsMp3Name(f.name)
        /\ \/ Contents[f.content].decode \in { "mp3_unreadable", "raise_mp3" }
           \/ Contents[f.content].decode = "ok" /\ Contents[f.content].container = "mp3"
              /\ Contents[f.content].length_s = NoneInt }

\* C7: an album with at least one mp3 that failed to decode or has no duration
\* gets severity Crit from the scan, with a Crit message counting those files.
C7_UnreadableMp3IsCrit ==
    s_pc = "done" =>
        \A dir \in Dirs :
            UnreadableMp3s(dir) # {} =>
                /\ KeyOfDir(dir) \in DOMAIN computed_per_album
                /\ computed_per_album[KeyOfDir(dir)].level = "CRIT"
                /\ \E i \in DOMAIN computed_per_album[KeyOfDir(dir)].messages :
                      LET m == computed_per_album[KeyOfDir(dir)].messages[i]
                      IN  m.kind = "mp3_unreadable" /\ m.count = Cardinality(UnreadableMp3s(dir))

IsReport(text) == text # << >> /\ text # NoMusicText

QuickLineNums(text) == (CHOOSE i \in DOMAIN text : text[i].kind = "quick")

\* C8: error-tagged records take no part in the diagnostics of any album, and
\* their sizes are counted in the byte total the report shows.
C8_ErrorRecordsAccounting ==
    (s_pc = "done" /\ IsReport(output[<< FALSE, FALSE, FALSE >>])) =>
        LET recognized == SelectSeq(results, LAMBDA fi : "error" \notin DOMAIN fi)
            text       == output[<< FALSE, FALSE, FALSE >>]
        IN  /\ \E sf \in SetFirstChoices(recognized) :
                  computed_per_album = ComputePerAlbum(group_by_album(recognized).groups, sf)
            /\ SubSeq(text[QuickLineNums(text)].nums, 3, 4)
                   = format_bytes(SumSeq(MapSeq(results, SizeOrZero)))

\* C9: every record of the scan carries a content hash and a size, and a decode
\* failure stops nothing: every candidate entry has its record.
C9_RecordsCarryHashAndSize ==
    /\ \A i \in DOMAIN results : { "content_hash", "size_bytes" } \subseteq DOMAIN results[i]
    /\ s_pc = "done" => Len(results) = Cardinality(FilesWithin(max_depth))

\* what print wrote to the terminal, by kind
PrintedKinds == { terminal_out[i].kind : i \in DOMAIN terminal_out }

\* C11: the file sink never overwrites: a file found at the output path keeps
\* its content through every step of a run, and a run with the file sink
\* requested that finds it there ends after get_output has returned, with a
\* non-zero exit status, having reported no success and fed no other sink.
C11_NoOverwrite ==
    [][ /\ output_file.exists => output_file' = output_file
        /\ (m_pc # "exited" /\ m_pc' = "exited" /\ root_is_dir /\ args.to_file
              /\ output_file = [exists |-> TRUE, text |-> OldContent]) =>
               /\ s_pc = "done" /\ scans = 1
               /\ exit_code' # 0 /\ exit_code' # NoneInt
               /\ ~clipboard'.copied
               /\ {"file_written", "copied", "report"} \cap { terminal_out'[i].kind : i \in DOMAIN terminal_out' } = {}
      ]_vars

\* a run with --to-file has ended on an existing target after a scan that
\* produced a report
C11_Witness ==
    /\ m_pc = "exited" /\ args.to_file /\ root_is_dir
    /\ output_file = [exists |-> TRUE, text |-> OldContent]
    /\ exit_code = 1
    /\ s_pc = "done" /\ IsReport(OutputText)

\* C12: a run that returns delivers the report text to at least one sink; the
\* file holds it exactly when --to-file is given, the clipboard exactly when
\* --copy is given, and the terminal echo happens exactly when --terminal is
\* given or neither --to-file nor --copy is, so also when no flag is set.
C12_SinkSelection ==
    (m_pc = "exited" /\ exit_code = 0) =>
        LET written == output_file = [exists |-> TRUE, text |-> OutputText]
            copied  == clipboard = [copied |-> TRUE, text |-> OutputText]
            echoes  == { i \in DOMAIN terminal_out : terminal_out[i] = Printed("report", OutputText) }
        IN  /\ written \/ copied \/ echoes # {}
            /\ written <=> args.to_file
            /\ copied <=> args.copy
            /\ (echoes # {}) <=> (args.terminal \/ (~args.to_file /\ ~args.copy))
            /\ Cardinality(echoes) <= 1
            /\ (~args.to_file /\ ~args.copy /\ ~args.terminal) => echoes # {}
            /\ ("report" \in PrintedKinds) => echoes # {}

\* a run without any sink flag has returned after echoing a report
C12_Witness ==
    /\ m_pc = "exited" /\ exit_code = 0
    /\ ~args.to_file /\ ~args.copy /\ ~args.terminal
    /\ IsReport(OutputText)
    /\ terminal_out = << Printed("report", OutputText) >>

\* C13: when no file with a recognized extension lies within the depth bound
\* the scan applies (the directories of depth <= max(maxDepth, 0), the root
\* being always scanned), get_output returns exactly the one sentence
\* "Couldn't find any music files with current parameters." under every
\* setting of the flags: no title, health bar, legend or debug trace.
C13_EmptyScanText ==
    (s_pc = "done" /\ FilesWithin(Max(max_depth, 0)) = {}) =>
        \A f \in Flags :
            /\ Len(output[f]) = 1
            /\ output[f][1].kind = "no_music"
            /\ output[f][1].msgs = << >>

\* a scan has ended on a tree that holds a file of another kind within the
\* bound and an audio file below it, and has collected debug lines
C13_Witness ==
    /\ s_pc = "done"
    /\ FilesWithin(Max(max_depth, 0)) = {}
    /\ \E f \in tree : DepthOf(f.dir) <= max_depth /\ ~should_consider(f.name)
    /\ \E f \in tree : DepthOf(f.dir) > max_depth /\ should_consider(f.name)
    /\ Len(debug_lines) > 1
    /\ output[<< TRUE, TRUE, TRUE >>] = NoMusicText

\* the lines of a kind in a text, in order
LinesOf(text, kind) == SelectSeq(text, LAMBDA l : l.kind = kind)

\* the albums of the finished scan in report order, and those with a severity
ScannedAlbums == group_by_album(SelectSeq(results, LAMBDA fi : "error" \notin DOMAIN fi))
ReportOrder == OrderAlbumKeys(ScannedAlbums.keys, ScannedAlbums.groups)
FlaggedKeys == SelectSeq(ReportOrder, LAMBDA k : computed_per_album[k].level # NoneStr)

\* C14: the report has one album block for each album whose final severity is
\* not None and none for the others; the three legend lines follow the blocks
\* exactly when there is at least one block; when there is none the one
\* sentence 'No warnings, critical issues, or informational notes were
\* detected.' stands in place of the album section and no legend appears.
C14_ReportStructure ==
    s_pc = "done" =>
        \A f \in Flags :
            IsReport(output[f]) =>
                LET text   == output[f]
                    blocks == LinesOf(text, "album")
                IN  /\ Len(blocks) = Len(FlaggedKeys)
                    /\ \A i \in DOMAIN blocks :
                          /\ blocks[i].msgs = computed_per_album[FlaggedKeys[i]].messages
                          /\ blocks[i].msgs # << >>
                          /\ blocks[i].text = resolve_display_album(ScannedAlbums.groups[FlaggedKeys[i]])
                    /\ Len(LinesOf(text, "legend")) = (IF blocks # << >> THEN 3 ELSE 0)
                    /\ Len(LinesOf(text, "legend_title")) = (IF blocks # << >> THEN 1 ELSE 0)
                    /\ Len(LinesOf(text, "no_issues")) = (IF blocks = << >> THEN 1 ELSE 0)
                    /\ \A i, j \in DOMAIN text :
                          (text[i].kind = "album" /\ text[j].kind \in {"legend", "legend_title"}) => i < j

\* a report shows the block of one album and leaves out an album without issues
C14_Witness ==
    /\ s_pc = "done"
    /\ IsReport(output[<< FALSE, FALSE, FALSE >>])
    /\ Len(FlaggedKeys) = 1 /\ Len(ReportOrder) = 2
    /\ Len(LinesOf(output[<< FALSE, FALSE, FALSE >>], "legend")) = 3

\* C15: the numbers of [WARN] and [CRIT] album blocks of a report are the
\* warnCount and critCount its health value was computed from; every block
\* carries the tag, the messages, and under --per-album the duration and size
\* of the one stored computation of its album.
C15_SingleComputation ==
    (s_pc = "done" /\ IsReport(output[<< FALSE, FALSE, FALSE >>])) =>
        /\ h_pc = "scored"
        /\ total_albums = Len(ReportOrder)
        /\ health_percent \in HealthOutcomes(total_albums, warn_albums, crit_albums)
        /\ \A f \in Flags :
              LET text   == output[f]
                  blocks == LinesOf(text, "album")
              IN  /\ Len(SelectSeq(blocks, LAMBDA l : l.tag = "[WARN]")) = warn_albums
                  /\ Len(SelectSeq(blocks, LAMBDA l : l.tag = "[CRIT]")) = crit_albums
                  /\ LinesOf(text, "health")
                         = << Line("health", "", "", << >>,
                                   << BarFilled(health_percent), ClampPercent(health_percent) >>, << >>) >>
                  /\ Len(blocks) = Len(FlaggedKeys)
                  /\ \A i \in DOMAIN blocks :
                        LET c == computed_per_album[FlaggedKeys[i]]
                        IN  /\ blocks[i].tag = (IF c.level = "CRIT" THEN "[CRIT]"
                                                ELSE IF c.level = "WARN" THEN "[WARN]" ELSE "[INFO]")
                            /\ blocks[i].msgs = c.messages
                            /\ blocks[i].nums = (IF f[1]
                                                 THEN format_duration_total(c.total_seconds)
                                                      \o format_bytes(c.total_size_bytes)
                                                 ELSE << >>)

\* a report with a Warn album and a Crit album
C15_Witness ==
    /\ s_pc = "done" /\ IsReport(output[<< TRUE, FALSE, FALSE >>])
    /\ warn_albums = 1 /\ crit_albums = 1
    /\ Len(LinesOf(output[<< TRUE, FALSE, FALSE >>], "album")) = 2

\* how often an album tag occurs among the records of an album
TagCount(files, name) == Cardinality({ i \in DOMAIN files : Get(files[i], "album", << >>) = name })

\* C16: the album blocks of a report are in non-decreasing order of their
\* display names compared without regard to letter case; the display name of
\* a block is a most frequent non-empty album tag of the album's tracks, or
\* 'Unknown Album' when no track has one.
C16_AlbumOrder ==
    s_pc = "done" =>
        \A f \in Flags :
            IsReport(output[f]) =>
                LET blocks == LinesOf(output[f], "album")
                IN  /\ \A i, j \in DOMAIN blocks :
                          i < j => ~StrLess(Lower(blocks[j].text), Lower(blocks[i].text))
                    /\ Len(blocks) = Len(FlaggedKeys)
                    /\ \A i \in DOMAIN blocks :
                          LET files == ScannedAlbums.groups[FlaggedKeys[i]]
                              tags  == { Get(files[n], "album", << >>) : n \in DOMAIN files } \ { << >> }
                          IN  IF tags = {} THEN blocks[i].text = UnknownAlbum
                              ELSE /\ blocks[i].text \in tags
                                   /\ \A t \in tags : TagCount(files, t) <= TagCount(files, blocks[i].text)

\* a report lists three albums in another order than their folders were
\* found in, a lower-case name between two upper-case ones
C16_Witness ==
    /\ s_pc = "done" /\ IsReport(output[<< FALSE, FALSE, FALSE >>])
    /\ Len(LinesOf(output[<< FALSE, FALSE, FALSE >>], "album")) = 3
    /\ [i \in 1..3 |-> LinesOf(output[<< FALSE, FALSE, FALSE >>], "album")[i].text]
           = << << "A" >>, << "b" >>, << "C" >> >>
    /\ ReportOrder # ScannedAlbums.keys

\* the number of content-hash groups of the album, singletons included
HashGroupCount(files) ==
    Cardinality({ h \in { HashOf(files[i]) : i \in DOMAIN files } : Truthy(h) })

\* an album of three files of which exactly two are byte-identical
TwoOfThreeIdentical(files) ==
    /\ Len(files) = 3
    /\ \A i \in 1..3 : Truthy(HashOf(files[i]))
    /\ Cardinality({ HashOf(files[i]) : i \in 1..3 }) = 2

\* C17: in an album with at least one duplicate group the sentence about
\* groups not shown states the number of all content-hash groups, singletons
\* included, minus the number of duplicate sentences shown, and is emitted
\* exactly when that number is positive; an album of three files of which two
\* are byte-identical gets the duplicate sentence naming the first of the two
\* with '+1 more', followed by the sentence reporting 1 more group.
C17_RemainingGroupsCount ==
    a_pc = "built" =>
        LET D         == DupGroupCount(album_files)
            remaining == HashGroupCount(album_files) - Min(3, D)
            more      == SelectSeq(a_warn_msgs, LAMBDA m : m.kind = "more_duplicate_groups")
        IN  /\ (D >= 1 /\ remaining > 0) =>
                   more = << Msg("more_duplicate_groups", << >>, << >>, remaining) >>
            /\ (D = 0 \/ remaining <= 0) => more = << >>
            /\ TwoOfThreeIdentical(album_files) =>
                   LET first == CHOOSE i \in 1..3 :
                                    \E j \in (i + 1)..3 : HashOf(album_files[i]) = HashOf(album_files[j])
                   IN  SubSeq(a_warn_msgs, 1, 2)
                           = << Msg("duplicate", << album_files[first].file_name >>, << >>, 1),
                                Msg("more_duplicate_groups", << >>, << >>, 1) >>

\* the messages of an album of three files, the first two byte-identical, have
\* been built
C17_Witness ==
    /\ a_pc = "built"
    /\ TwoOfThreeIdentical(album_files)
    /\ HashOf(album_files[1]) = HashOf(album_files[2])
    /\ a_level = "WARN"
    /\ Len(a_warn_msgs) = 2

\* the artwork hashes a record carries, as a set
ArtworkSet(fi) == Range(Get(fi, "artwork_hashes", << >>))

\* the three parts of C18: the missing-artwork warning; no 'Cover artwork
\* differs' when all records with artwork carry the same hashes; the warning
\* when two records carry artwork with no hash in common
MissingCoverRule ==
    LET without == { i \in DOMAIN album_files : ArtworkSet(album_files[i]) = {} }
    IN  ("missing_cover" \in KindsOf(a_warn_msgs)) <=> (without # {} /\ without # DOMAIN album_files)

SameArtworkNeverDiffers ==
    LET sets == { ArtworkSet(album_files[i]) : i \in DOMAIN album_files } \ { {} }
    IN  Cardinality(sets) <= 1 => "artwork_differs" \notin KindsOf(a_warn_msgs)

DisjointArtworkDiffers ==
    (\E i, j \in DOMAIN album_files :
        /\ ArtworkSet(album_files[i]) # {} /\ ArtworkSet(album_files[j]) # {}
        /\ ArtworkSet(album_files[i]) \cap ArtworkSet(album_files[j]) = {})
    => "artwork_differs" \in KindsOf(a_warn_msgs)

\* C18: the missing-artwork warning is emitted exactly when at least one but
\* not all records of the album lack an artwork hash; 'Cover artwork differs'
\* is emitted when records with artwork have no artwork hash in common, and
\* never for an album whose records with artwork all carry one and the same
\* set of hashes, be it a set of two or more.
C18_ArtworkRules ==
    a_pc = "built" => MissingCoverRule /\ SameArtworkNeverDiffers /\ DisjointArtworkDiffers

\* C19 as claimed: with at least one album the health is 100 exactly when no
\* album is Warn or Crit, and 0 exactly when every album is Crit, for any
\* album count.
C19_HealthExtremes ==
    (h_pc = "scored" /\ total_albums > 0) =>
        /\ (health_percent = 100) <=> (warn_albums = 0 /\ crit_albums = 0)
        /\ (health_percent = 0) <=> (crit_albums = total_albums)

\* C19 as amended: with at least one album the health is 100 exactly when
\* the penalty warnCount + 2 critCount is at most albumCount / 100, and 0
\* exactly when the penalty is less than albumCount / 100 short of the full
\* penalty 2 albumCount; so 'no album is Warn or Crit' is equivalent to a
\* health of 100 for fewer than 100 albums only, and 'every album is Crit' to
\* a health of 0 for at most 100 albums only.
C19_HealthExtremesUpToRounding ==
    (h_pc = "scored" /\ total_albums > 0) =>
        LET penalty_units == warn_albums + 2 * crit_albums
            max_units     == 2 * total_albums
        IN  /\ (health_percent = 100) <=> (100 * penalty_units <= total_albums)
            /\ (health_percent = 0) <=> (100 * (max_units - penalty_units) < total_albums)
            /\ total_albums < 100 =>
                  ((health_percent = 100) <=> (warn_albums = 0 /\ crit_albums = 0))
            /\ total_albums <= 100 =>
                  ((health_percent = 0) <=> (crit_albums = total_albums))

\* a library of more than 100 albums with one Warn album has been scored 100
C19_Witness ==
    /\ h_pc = "scored"
    /\ total_albums > 100 /\ warn_albums = 1 /\ crit_albums = 0
    /\ health_percent = 100

====
